---- MODULE Spec2Model ----
(***************************************************************************)
(* Model of the CoNLL coreference reader of research-coref:                *)
(*   conll.py  read_conll_chunk, read_conll_document, read_conll_file      *)
(*             (with its nested process_conll_sentence and                 *)
(*             process_conll_document)                                     *)
(*   lang.py   Sentence (normalize), Document                              *)
(*                                                                         *)
(* Two specifications share the operators that model the code:             *)
(*   Spec         the generator read_conll_file pulled by a caller over a  *)
(*                file whose lines are revealed as they are read;          *)
(*   SpecDecoder  process_conll_sentence run statement by statement over   *)
(*                one segment, with a richer alphabet of lines.            *)
(***************************************************************************)
EXTENDS Integers, Sequences, FiniteSets

(***************************************************************************)
(* Bounds                                                                  *)
(***************************************************************************)
\* longest file, in lines
MaxLines == 8
\* longest segment read from a file, in lines
MaxSegLines == 2
\* longest segment given to the decoder, in lines
MaxSentLines == 2
\* longest token list given to Sentence alone
MaxTokens == 3

(***************************************************************************)
(* Lines of a CoNLL file.  A line is kept as the parts the code looks at:  *)
(* whether it is blank, a "#begin document" or "#end document" marker, or  *)
(* a token line with its word number (column 3), its word (column 4) and   *)
(* its coreference column, already split on "|" into codes.  A code is a   *)
(* sequence of characters.                                                 *)
(***************************************************************************)
Line(kind, id, word, tok, coref) ==
    [kind |-> kind, doc_id |-> id, word |-> word, tok |-> tok, coref |-> coref]

BlankLine == Line("blank", "", 0, "", <<>>)
BeginLine(id) == Line("begin", id, 0, "", <<>>)
EndLine == Line("end", "", 0, "", <<>>)
DataLine(word, tok, coref) == Line("data", "", word, tok, coref)
\* readline() at end of file returns ''
EOF == Line("eof", "", 0, "", <<>>)

OpenCode(n) == <<"(", n>>
CloseCode(n) == <<n, ")">>
BothCode(n) == <<"(", n, ")">>
NoCode == <<"-">>

DocIds == {"(test)", "(other)"}

\* token lines a file may hold
FileDataLines ==
    { DataLine(0, "-LRB-", <<OpenCode("1")>>),
      DataLine(1, "-RRB-", <<CloseCode("1")>>),
      DataLine(0, "w", <<NoCode>>),
      DataLine(0, "w", <<BothCode("5"), BothCode("1")>>) }

\* token lines a segment given to the decoder may hold
SentWords == {0, 1}

SentTokens == {"-LRB-", "w"}

CorefFields ==
    { <<NoCode>>,
      <<OpenCode("5")>>, <<CloseCode("5")>>, <<BothCode("5")>>,
      <<OpenCode("7")>>, <<CloseCode("7")>>, <<BothCode("7")>>,
      <<OpenCode("7"), OpenCode("5")>>,
      <<OpenCode("5"), OpenCode("5")>>,
      <<OpenCode("5"), CloseCode("5")>>,
      <<CloseCode("5"), CloseCode("5")>>,
      <<CloseCode("5"), CloseCode("7")>>,
      <<BothCode("5"), BothCode("7")>> }

SentDataLines ==
    { DataLine(w, t, c) : w \in SentWords, t \in SentTokens, c \in CorefFields }

\* a segment starts with a token line; a later line is any line but a blank
SentLines(first) ==
    IF first THEN SentDataLines
    ELSE SentDataLines \cup {EndLine} \cup {BeginLine(id) : id \in DocIds}

FileLines ==
    {BlankLine, EndLine} \cup {BeginLine(id) : id \in DocIds} \cup FileDataLines

(***************************************************************************)
(* lang.py                                                                 *)
(***************************************************************************)
normalize_token_chained(tok) ==
    IF tok = "-LRB-" THEN "-RRB-"
    ELSE IF tok = "-RRB-" THEN ")"
    ELSE tok

normalize_token_swapped(tok) ==
    IF tok = "-LRB-" THEN ")"
    ELSE IF tok = "-RRB-" THEN "("
    ELSE tok

\* Sentence.normalize, one token
normalize_token(tok) ==
    IF tok = "-LRB-" THEN "("
    ELSE IF tok = "-RRB-" THEN ")"
    ELSE tok

\* Sentence.normalize
normalize(toks) == [i \in 1..Len(toks) |-> normalize_token(toks[i])]

(***************************************************************************)
(* process_conll_sentence                                                  *)
(***************************************************************************)
Digits == <<"0", "1", "2", "3", "4", "5", "6", "7", "8", "9">>

IsDigit(c) == \E d \in 1..Len(Digits) : Digits[d] = c

DigitValue(c) == (CHOOSE d \in 1..Len(Digits) : Digits[d] = c) - 1

\* whether int(s) succeeds (decimal digits only)
IsNumeral(s) == Len(s) > 0 /\ \A i \in 1..Len(s) : IsDigit(s[i])

RECURSIVE int(_)
int(s) ==
    IF Len(s) = 0 THEN 0
    ELSE 10 * int(SubSeq(s, 1, Len(s) - 1)) + DigitValue(s[Len(s)])

startswith_anything(coref) == Len(coref) > 0

\* coref.startswith('(')
startswith_paren(coref) == Len(coref) > 0 /\ coref[1] = "("

endswith_paren(coref) == Len(coref) > 0 /\ coref[Len(coref)] = ")"

LastOpen(s, entity) ==
    IF \E i \in 1..Len(s) : s[i][1] = entity
    THEN CHOOSE i \in 1..Len(s) :
            /\ s[i][1] = entity
            /\ \A j \in (i + 1)..Len(s) : s[j][1] # entity
    ELSE 0

\* next(x for x in open_list if x[0] == entity): the index of the first
\* element of s with s[i][1] = entity, 0 when there is none
FirstOpen(s, entity) ==
    IF \E i \in 1..Len(s) : s[i][1] = entity
    THEN CHOOSE i \in 1..Len(s) :
            /\ s[i][1] = entity
            /\ \A j \in 1..(i - 1) : s[j][1] # entity
    ELSE 0

\* list.remove(x): s without its first element equal to x
ListRemove(s, x) ==
    LET i == CHOOSE k \in 1..Len(s) : s[k] = x /\ \A j \in 1..(k - 1) : s[j] # x
    IN  SubSeq(s, 1, i - 1) \o SubSeq(s, i + 1, Len(s))

\* the span of a code "(N)": (entity, word_position, word_position)
ImmediateSpanFromZero(entity, word_position) == <<entity, 0, word_position>>

ImmediateSpan(entity, word_position) == <<entity, word_position, word_position>>

\* the span of a code "N)": (entity, start_position, word_position)
CloseSpanReversed(entity, start_position, word_position) ==
    <<entity, word_position, start_position>>

CloseSpan(entity, start_position, word_position) ==
    <<entity, start_position, word_position>>

EmitSpanFirst(spans, span) == <<span>> \o spans

\* spans.append(span)
EmitSpan(spans, span) == Append(spans, span)

InitialOpenListKept(previous) == previous

\* open_list = [], whatever the open_list of the call before held
InitialOpenList(previous) == <<>>

\* the state of the decoder between two statements
DecoderState(toks, ol, sp, e) ==
    [tokens |-> toks, open_list |-> ol, spans |-> sp, err |-> e]

Raise(st, e) == [st EXCEPT !.err = e]

\* one iteration of "for coref in corefs"
ProcessCoref(st, coref, word_position) ==
    IF st.err # "none" THEN st
    ELSE IF startswith_paren(coref) /\ endswith_paren(coref) THEN
        LET digits == SubSeq(coref, 2, Len(coref) - 1)
        IN  IF ~IsNumeral(digits) THEN Raise(st, "ValueError")
            ELSE [st EXCEPT !.spans =
                      EmitSpan(@, ImmediateSpan(int(digits), word_position))]
    ELSE IF startswith_paren(coref) THEN
        LET digits == SubSeq(coref, 2, Len(coref))
        IN  IF ~IsNumeral(digits) THEN Raise(st, "ValueError")
            ELSE [st EXCEPT !.open_list =
                      <<<<int(digits), word_position>>>> \o @]
    ELSE IF endswith_paren(coref) THEN
        LET digits == SubSeq(coref, 1, Len(coref) - 1)
        IN  IF ~IsNumeral(digits) THEN Raise(st, "ValueError")
            ELSE LET entity == int(digits)
                     i == FirstOpen(st.open_list, entity)
                 IN  IF i = 0 THEN Raise(st, "StopIteration")
                     ELSE LET start_position == st.open_list[i][2]
                          IN  [st EXCEPT
                                 !.spans = EmitSpan(@,
                                     CloseSpan(entity, start_position,
                                               word_position)),
                                 !.open_list = ListRemove(@,
                                     <<entity, start_position>>)]
    ELSE st

RECURSIVE ProcessCorefs(_, _, _)
ProcessCorefs(st, corefs, word_position) ==
    IF Len(corefs) = 0 THEN st
    ELSE ProcessCorefs(ProcessCoref(st, Head(corefs), word_position),
                       Tail(corefs), word_position)

\* the statements of the loop body that read the columns of a line:
\* a marker line swallowed by a segment has no integer in column 3
FieldsError(line) ==
    IF line.kind = "begin" THEN "ValueError"
    ELSE IF line.kind = "end" THEN "IndexError"
    ELSE "none"

AppendTokenFront(st, line) ==
    IF st.err # "none" THEN st ELSE [st EXCEPT !.tokens = <<line.tok>> \o @]

\* tokens.append(fields[3].strip())
AppendToken(st, line) ==
    IF st.err # "none" THEN st ELSE [st EXCEPT !.tokens = Append(@, line.tok)]

\* one iteration of "for line in sent.lines"
ProcessLine(st, line) ==
    IF st.err # "none" THEN st
    ELSE IF FieldsError(line) # "none" THEN Raise(st, FieldsError(line))
    ELSE AppendToken(ProcessCorefs(st, line.coref, line.word), line)

RECURSIVE ProcessLines(_, _)
ProcessLines(st, ls) ==
    IF Len(ls) = 0 THEN st
    ELSE ProcessLines(ProcessLine(st, Head(ls)), Tail(ls))

\* Sentence(tokens, spans): the constructor normalizes the tokens
Sentence(toks, references) ==
    [tokens |-> normalize(toks), references |-> references]

\* the result of process_conll_sentence: the Sentence, or the exception
process_conll_sentence(ls) ==
    LET st == ProcessLines(DecoderState(<<>>, InitialOpenList(<<>>), <<>>, "none"),
                           ls)
    IN  [sentence |-> Sentence(st.tokens, st.spans), err |-> st.err]

(***************************************************************************)
(* process_conll_document                                                  *)
(***************************************************************************)
\* mentions is a defaultdict(list): a list of [key, val] in insertion order
HasKey(mentions, entity) == \E k \in 1..Len(mentions) : mentions[k].key = entity

AppendMentionAlone(mentions, entity, triple) ==
    Append(mentions, [key |-> entity, val |-> <<triple>>])

\* mentions[entity].append(triple)
AppendMention(mentions, entity, triple) ==
    IF HasKey(mentions, entity)
    THEN [k \in 1..Len(mentions) |->
            IF mentions[k].key = entity
            THEN [mentions[k] EXCEPT !.val = Append(@, triple)]
            ELSE mentions[k]]
    ELSE Append(mentions, [key |-> entity, val |-> <<triple>>])

\* for (entity, start, stop) in sent.references, for the sentence numbered i
RECURSIVE AddReferences(_, _, _)
AddReferences(mentions, i, references) ==
    IF Len(references) = 0 THEN mentions
    ELSE LET ref == Head(references)
         IN  AddReferences(AppendMention(mentions, ref[1], <<i, ref[2], ref[3]>>),
                           i, Tail(references))

\* for i, sent in enumerate(sents), from the sentence numbered i on
RECURSIVE AddSentences(_, _, _)
AddSentences(mentions, i, sents) ==
    IF i >= Len(sents) THEN mentions
    ELSE AddSentences(AddReferences(mentions, i, sents[i + 1].references),
                      i + 1, sents)

\* list(mentions.values())
Values(mentions) == [k \in 1..Len(mentions) |-> mentions[k].val]

Document(id, toks, corefs) == [doc_id |-> id, tokens |-> toks, mentions |-> corefs]

process_conll_document(id, sents) ==
    Document(id,
             [i \in 1..Len(sents) |-> sents[i].tokens],
             Values(AddSentences(<<>>, 0, sents)))

(***************************************************************************)
(* State                                                                   *)
(***************************************************************************)
VARIABLES
    consumed,       \* the lines read from the file so far, in order
    atEOF,          \* the file has no further line
    pc,             \* where the generator read_conll_file stands
    doc_id,         \* firstchunk.doc_id in read_conll_document
    chunks,         \* chunks in read_conll_document: the segments' lines
    lines,          \* lines in read_conll_chunk
    chunk_types,    \* conll_type() of the chunks the current call of
                    \* read_conll_document has read
    yielded,        \* the Documents the generator has yielded
    err,            \* the exception that left the generator, or "none"
    sent,           \* process_conll_sentence: sent.lines iterated so far
    line,           \* the line of the current iteration
    word_position,
    corefs,         \* the codes of the line still to process
    tokens,
    open_list,
    spans,
    dpc,            \* where process_conll_sentence stands
    result,         \* what process_conll_sentence returned or raised
    left_open       \* the entities the call of process_conll_sentence before
                    \* this one left in its open_list when it returned

fileVars == <<consumed, atEOF, pc, doc_id, chunks, lines, chunk_types, yielded, err>>
sentVars == <<sent, line, word_position, corefs, tokens, open_list, spans, dpc,
              result, left_open>>
vars == <<consumed, atEOF, pc, doc_id, chunks, lines, chunk_types, yielded, err,
          sent, line, word_position, corefs, tokens, open_list, spans, dpc, result,
          left_open>>

NoResult == [kind |-> "none", sentence |-> Sentence(<<>>, <<>>), err |-> "none"]

FileInit ==
    /\ consumed = <<>>
    /\ atEOF = FALSE
    /\ doc_id = ""
    /\ chunks = <<>>
    /\ lines = <<>>
    /\ chunk_types = <<>>
    /\ yielded = <<>>
    /\ err = "none"

SentInit ==
    /\ sent = <<>>
    /\ line = BlankLine
    /\ word_position = 0
    /\ corefs = <<>>
    /\ tokens = <<>>
    /\ open_list = <<>>
    /\ spans = <<>>
    /\ result = NoResult
    /\ left_open = {}

\* the generator has been created and not yet advanced
Init == FileInit /\ SentInit /\ pc = "suspended" /\ dpc = "idle"

(***************************************************************************)
(* read_conll_chunk, read_conll_document, read_conll_file                  *)
(***************************************************************************)
\* what the next read of the file may return
ReadableBlocking ==
    IF atEOF \/ Len(consumed) >= MaxLines THEN {} ELSE FileLines

\* what inhandle.readline() can return next: a line while the stream has
\* more, '' from its end on
Readable ==
    IF atEOF \/ Len(consumed) >= MaxLines THEN {EOF} ELSE FileLines \cup {EOF}

Consume(l) ==
    /\ consumed' = IF l = EOF THEN consumed ELSE Append(consumed, l)
    /\ atEOF' = (l = EOF)

IsBlankOnlyEOF(l) == l.kind = "eof"

\* line.strip() == ''
IsBlank(l) == l.kind \in {"blank", "eof"}

\* the conll_type() of the chunk read_conll_chunk builds from this first line
conll_type(firstline) ==
    IF IsBlank(firstline) THEN "eof"
    ELSE IF firstline.kind = "begin" THEN "begin"
    ELSE IF firstline.kind = "end" THEN "end"
    ELSE "segment"

RaiseFrom(e) == pc' = "error" /\ err' = e

UnexpectedFirstNever(type) == FALSE

\* "if not firstchunk.conll_type() == 'begin'", after the test for 'eof'
UnexpectedFirst(type) == ~(type = "begin")

\* "if not nextchunk.conll_type() == 'end'", after the loop over segments
UnexpectedNextButEOF(type) == ~(type \in {"end", "eof"})

UnexpectedNext(type) == ~(type = "end")

PullReadingAhead ==
    /\ pc = "suspended"
    /\ pc' = "read_first"
    /\ chunk_types' = <<>>
    /\ \E l \in Readable : Consume(l)
    /\ UNCHANGED <<doc_id, chunks, lines, yielded, err>>
    /\ UNCHANGED sentVars

\* the caller calls next() on the generator
Pull ==
    /\ pc = "suspended"
    /\ pc' = "read_first"
    /\ chunk_types' = <<>>
    /\ UNCHANGED <<consumed, atEOF, doc_id, chunks, lines, yielded, err>>
    /\ UNCHANGED sentVars

\* read_conll_document, firstchunk = read_conll_chunk(inhandle) and its tests
ReadFirstChunk ==
    /\ pc = "read_first"
    /\ \E l \in Readable :
        /\ Consume(l)
        /\ IF conll_type(l) = "segment"
           THEN /\ lines' = <<l>>
                /\ pc' = "segment_first"
                /\ UNCHANGED <<doc_id, chunks, chunk_types, err>>
           ELSE /\ chunk_types' = Append(chunk_types, conll_type(l))
                /\ UNCHANGED lines
                /\ IF conll_type(l) = "eof"
                   THEN pc' = "done" /\ UNCHANGED <<doc_id, chunks, err>>
                   ELSE IF UnexpectedFirst(conll_type(l))
                   THEN RaiseFrom("Exception") /\ UNCHANGED <<doc_id, chunks>>
                   ELSE /\ doc_id' = l.doc_id
                        /\ chunks' = <<>>
                        /\ pc' = "read_next"
                        /\ UNCHANGED err
    /\ UNCHANGED yielded
    /\ UNCHANGED sentVars

\* read_conll_document, nextchunk = read_conll_chunk(inhandle) and its tests
ReadNextChunk ==
    /\ pc = "read_next"
    /\ \E l \in Readable :
        /\ Consume(l)
        /\ IF conll_type(l) = "segment"
           THEN /\ lines' = <<l>>
                /\ pc' = "segment_next"
                /\ UNCHANGED <<chunk_types, err>>
           ELSE /\ chunk_types' = Append(chunk_types, conll_type(l))
                /\ UNCHANGED lines
                /\ IF UnexpectedNext(conll_type(l))
                   THEN RaiseFrom("Exception")
                   ELSE pc' = "process" /\ UNCHANGED err
    /\ UNCHANGED <<doc_id, chunks, yielded>>
    /\ UNCHANGED sentVars

\* chunks.append(nextchunk)
AppendChunkReplacing(cs, ls) == <<ls>>

AppendChunk(cs, ls) == Append(cs, ls)

AppendLineUnlessMarker(ls, l) ==
    IF l.kind \in {"begin", "end"} THEN ls ELSE Append(ls, l)

\* lines.append(line.strip())
AppendLine(ls, l) == Append(ls, l)

\* read_conll_chunk, one iteration of "for line in inhandle", and the return
\* of the Segment to read_conll_document when the loop ends
ReadSegmentLine ==
    /\ pc \in {"segment_first", "segment_next"}
    /\ \E l \in Readable :
        /\ Len(lines) >= MaxSegLines => IsBlank(l)
        /\ Consume(l)
        /\ IF IsBlank(l)
           THEN /\ chunk_types' = Append(chunk_types, "segment")
                /\ UNCHANGED lines
                /\ IF pc = "segment_first"
                   THEN RaiseFrom("Exception") /\ UNCHANGED chunks
                   ELSE /\ chunks' = AppendChunk(chunks, lines)
                        /\ pc' = "read_next"
                        /\ UNCHANGED err
           ELSE /\ lines' = AppendLine(lines, l)
                /\ UNCHANGED <<pc, chunks, chunk_types, err>>
    /\ UNCHANGED <<doc_id, yielded>>
    /\ UNCHANGED sentVars

\* index of the first chunk whose decoding raises, 0 when none does
FirstRaising(cs) ==
    IF \E i \in 1..Len(cs) : process_conll_sentence(cs[i]).err # "none"
    THEN CHOOSE i \in 1..Len(cs) :
            /\ process_conll_sentence(cs[i]).err # "none"
            /\ \A j \in 1..(i - 1) : process_conll_sentence(cs[j]).err = "none"
    ELSE 0

GeneratorErrorSilent(e) == IF e = "StopIteration" THEN "none" ELSE e

\* an exception leaving the generator body: a StopIteration is replaced by
\* RuntimeError("generator raised StopIteration")
GeneratorError(e) == IF e = "StopIteration" THEN "RuntimeError" ELSE e

\* read_conll_file: sents = [process_conll_sentence(chunk) for chunk in chunks]
\* and yield process_conll_document(doc_id, sents)
ProcessDocument ==
    /\ pc = "process"
    /\ LET i == FirstRaising(chunks)
       IN  IF i # 0
           THEN /\ RaiseFrom(GeneratorError(process_conll_sentence(chunks[i]).err))
                /\ UNCHANGED yielded
           ELSE /\ yielded' = Append(yielded,
                      process_conll_document(doc_id,
                          [k \in 1..Len(chunks) |->
                              process_conll_sentence(chunks[k]).sentence]))
                /\ pc' = "suspended"
                /\ UNCHANGED err
    /\ UNCHANGED <<consumed, atEOF, doc_id, chunks, lines, chunk_types>>
    /\ UNCHANGED sentVars

Next ==
    \/ Pull
    \/ ReadFirstChunk
    \/ ReadNextChunk
    \/ ReadSegmentLine
    \/ ProcessDocument

Spec == Init /\ [][Next]_vars

\* what the statements of lines 182-183 do to the generator's position: they
\* run to the yield or raise, whatever the chunks hold
Processed == pc = "process" /\ pc' \in {"suspended", "error"}

\* "for doc in read_conll_file(filename)": the caller keeps calling next(),
\* every read of the stream returns, and the processing of a document's
\* chunks runs to its yield or raise
SpecLive ==
    /\ Spec
    /\ WF_vars(Pull)
    /\ WF_vars(ReadFirstChunk)
    /\ WF_vars(ReadNextChunk)
    /\ WF_vars(ReadSegmentLine)
    /\ WF_pc(Processed)

(***************************************************************************)
(* process_conll_sentence, statement by statement                          *)
(***************************************************************************)
\* process_conll_sentence has been called and stands before its loop
DecoderInit == FileInit /\ SentInit /\ pc = "idle" /\ dpc = "for_line"

RaiseInSentence(e) ==
    /\ dpc' = "raised"
    /\ result' = [kind |-> "raised", sentence |-> Sentence(<<>>, <<>>), err |-> e]

\* "for line in sent.lines": the next line, its fields, word_position, corefs
NextLine ==
    /\ dpc = "for_line"
    /\ Len(sent) < MaxSentLines
    /\ \E l \in SentLines(sent = <<>>) :
        /\ sent' = Append(sent, l)
        /\ line' = l
        /\ IF FieldsError(l) # "none"
           THEN /\ RaiseInSentence(FieldsError(l))
                /\ UNCHANGED <<word_position, corefs>>
           ELSE /\ word_position' = l.word
                /\ corefs' = l.coref
                /\ dpc' = "for_coref"
                /\ UNCHANGED result
    /\ UNCHANGED <<tokens, open_list, spans>>
    /\ UNCHANGED <<fileVars, left_open>>

\* "for coref in corefs": the body for the next code
NextCoref ==
    /\ dpc = "for_coref"
    /\ corefs # <<>>
    /\ LET st == ProcessCoref(DecoderState(tokens, open_list, spans, "none"),
                              Head(corefs), word_position)
       IN  IF st.err # "none"
           THEN /\ RaiseInSentence(st.err)
                /\ UNCHANGED <<open_list, spans, corefs>>
           ELSE /\ open_list' = st.open_list
                /\ spans' = st.spans
                /\ corefs' = Tail(corefs)
                /\ UNCHANGED <<dpc, result>>
    /\ UNCHANGED <<sent, line, word_position, tokens>>
    /\ UNCHANGED <<fileVars, left_open>>

\* tokens.append(fields[3].strip()), after the codes of the line
AppendLineToken ==
    /\ dpc = "for_coref"
    /\ corefs = <<>>
    /\ tokens' = AppendToken(DecoderState(tokens, open_list, spans, "none"),
                             line).tokens
    /\ dpc' = "for_line"
    /\ UNCHANGED <<sent, line, word_position, corefs, open_list, spans, result>>
    /\ UNCHANGED <<fileVars, left_open>>

\* return Sentence(tokens, spans), when sent.lines is exhausted
ReturnSentence ==
    /\ dpc = "for_line"
    /\ sent # <<>>
    /\ dpc' = "returned"
    /\ result' = [kind |-> "returned", sentence |-> Sentence(tokens, spans),
                  err |-> "none"]
    /\ UNCHANGED <<sent, line, word_position, corefs, tokens, open_list, spans>>
    /\ UNCHANGED <<fileVars, left_open>>

\* the next call of process_conll_sentence, for the next chunk of
\* "[process_conll_sentence(chunk) for chunk in chunks]": fresh locals
CallAgain ==
    /\ dpc = "returned"
    /\ left_open' = { open_list[i][1] : i \in 1..Len(open_list) }
    /\ sent' = <<>>
    /\ line' = BlankLine
    /\ word_position' = 0
    /\ corefs' = <<>>
    /\ tokens' = <<>>
    /\ open_list' = InitialOpenList(open_list)
    /\ spans' = <<>>
    /\ result' = NoResult
    /\ dpc' = "for_line"
    /\ UNCHANGED fileVars

DecoderNext ==
    \/ NextLine
    \/ NextCoref
    \/ AppendLineToken
    \/ ReturnSentence
    \/ CallAgain

SpecDecoder == DecoderInit /\ [][DecoderNext]_vars

\* the statements agree with process_conll_sentence applied to the segment
DecoderAgrees ==
    /\ dpc = "returned" =>
          /\ process_conll_sentence(sent).err = "none"
          /\ process_conll_sentence(sent).sentence = result.sentence
    /\ dpc = "raised" => process_conll_sentence(sent).err = result.err

TypeOK ==
    /\ pc \in {"suspended", "read_first", "read_next", "segment_first",
               "segment_next", "process", "done", "error"}
    /\ err \in {"none", "Exception", "RuntimeError", "ValueError", "IndexError"}
    /\ (pc = "error") = (err # "none")
    /\ Len(consumed) <= MaxLines

(***************************************************************************)
(* Files that follow the format: documents one after the other, each a     *)
(* begin line, one or more segments each closed by a blank line, and an    *)
(* end line; in every segment each close code follows an open code of the  *)
(* same entity that is still open.                                         *)
(***************************************************************************)
Follows(a, b) ==
    \/ a.kind = "begin" /\ b.kind = "data"
    \/ a.kind = "data" /\ b.kind \in {"data", "blank"}
    \/ a.kind = "blank" /\ b.kind \in {"data", "end"}
    \/ a.kind = "end" /\ b.kind = "begin"

EntityNames == {"1", "5", "7"}

\* the codes of the token lines s[lo..hi], in the order of the file
RECURSIVE CodesOf(_, _, _)
CodesOf(s, lo, hi) ==
    IF lo > hi THEN <<>> ELSE s[lo].coref \o CodesOf(s, lo + 1, hi)

Count(cs, c, n) == Cardinality({i \in 1..n : cs[i] = c})

\* no prefix of the codes closes an entity more often than it opens it
ClosesMatched(cs) ==
    \A n \in 1..Len(cs) : \A e \in EntityNames :
        Count(cs, CloseCode(e), n) <= Count(cs, OpenCode(e), n)

\* i..j is a segment of s: a maximal run of token lines
IsSegmentAt(s, i, j) ==
    /\ i <= j
    /\ \A x \in i..j : s[x].kind = "data"
    /\ (i = 1 \/ s[i - 1].kind # "data")
    /\ (j = Len(s) \/ s[j + 1].kind # "data")

ValidStream(s) ==
    /\ s # <<>> => s[1].kind = "begin" /\ s[Len(s)].kind = "end"
    /\ \A i \in 1..(Len(s) - 1) : Follows(s[i], s[i + 1])
    /\ \A i, j \in 1..Len(s) :
          IsSegmentAt(s, i, j) => ClosesMatched(CodesOf(s, i, j))

\* the indices of the lines of the given kind, in increasing order
RECURSIVE IndicesOf(_, _, _)
IndicesOf(s, kind, from) ==
    IF from > Len(s) THEN <<>>
    ELSE IF s[from].kind = kind THEN <<from>> \o IndicesOf(s, kind, from + 1)
    ELSE IndicesOf(s, kind, from + 1)

\* the token lists of the segments of s between lines lo and hi
RECURSIVE SentencesBetween(_, _, _)
SentencesBetween(s, lo, hi) ==
    IF lo + 1 >= hi THEN <<>>
    ELSE IF \E j \in (lo + 1)..(hi - 1) : IsSegmentAt(s, lo + 1, j)
    THEN LET j == CHOOSE x \in (lo + 1)..(hi - 1) : IsSegmentAt(s, lo + 1, x)
         IN  <<[x \in 1..(j - lo) |-> normalize_token(s[lo + x].tok)]>>
                \o SentencesBetween(s, j, hi)
    ELSE SentencesBetween(s, lo + 1, hi)

\* C1: when a file that follows the format has been read to its end, the
\* generator has stopped without an exception after yielding one Document per
\* begin/end pair, the k-th with the doc_id and the sentences of the k-th pair
C1_OneDocumentPerPair ==
    (atEOF /\ pc \in {"done", "error"} /\ ValidStream(consumed)) =>
        LET begins == IndicesOf(consumed, "begin", 1)
            ends == IndicesOf(consumed, "end", 1)
        IN  /\ pc = "done"
            /\ Len(yielded) = Len(begins)
            /\ Len(ends) = Len(begins)
            /\ \A k \in 1..Len(yielded) :
                  /\ yielded[k].doc_id = consumed[begins[k]].doc_id
                  /\ yielded[k].tokens =
                        SentencesBetween(consumed, begins[k], ends[k])

\* two documents with different ids and different sentences have been yielded
\* from a file that follows the format
C1_Witness ==
    /\ atEOF /\ pc = "done" /\ ValidStream(consumed)
    /\ Len(yielded) = 2
    /\ yielded[1].doc_id # yielded[2].doc_id
    /\ yielded[1].tokens # yielded[2].tokens

(***************************************************************************)
(* The codes process_conll_sentence has processed so far, each with the    *)
(* word number of its line, in the order of the segment.                   *)
(***************************************************************************)
RECURSIVE CodesWithWords(_)
CodesWithWords(ls) ==
    IF Len(ls) = 0 THEN <<>>
    ELSE [i \in 1..Len(Head(ls).coref) |->
              [code |-> Head(ls).coref[i], word |-> Head(ls).word]]
            \o CodesWithWords(Tail(ls))

ProcessedCodes ==
    LET all == CodesWithWords(sent)
    IN  SubSeq(all, 1, Len(all) - Len(corefs))

CountIn(P, c, lo, hi) == Cardinality({i \in lo..hi : P[i].code = c})

\* the open codes of entity e among P[1..t] that no later code of P[1..t]
\* closes, when every close code closes the latest open code still open
Unclosed(P, e, t) ==
    { o \in 1..t :
        /\ P[o].code = OpenCode(e)
        /\ \A c \in (o + 1)..t :
              CountIn(P, CloseCode(e), o + 1, c) <= CountIn(P, OpenCode(e), o + 1, c) }

Max(S) == CHOOSE x \in S : \A y \in S : y <= x

RemoveAt(s, i) == SubSeq(s, 1, i - 1) \o SubSeq(s, i + 1, Len(s))

\* C2: a close code of an entity that has open codes still unclosed is paired
\* with the one opened last: the span from that code's word number to the
\* current one is appended to spans, and open_list loses one entry, that
\* entity with that start, the others keeping their order; after "(5" at 0,
\* "(5" at 1 and "5)" at 1 the span is (5, 1, 1) and (5, 0) is still open
C2_CloseTakesLatestOpen ==
    [][ \A e \in EntityNames :
          LET P == ProcessedCodes
              U == Unclosed(P, e, Len(P))
          IN  ( /\ dpc = "for_coref"
                /\ corefs # <<>>
                /\ Head(corefs) = CloseCode(e)
                /\ U # {} ) =>
                  LET start == P[Max(U)].word
                  IN  /\ dpc' = "for_coref"
                      /\ corefs' = Tail(corefs)
                      /\ spans' = Append(spans, <<int(<<e>>), start, word_position>>)
                      /\ \E i \in 1..Len(open_list) :
                            /\ open_list[i] = <<int(<<e>>), start>>
                            /\ open_list' = RemoveAt(open_list, i)
                      /\ ( sent = << DataLine(0, "w", <<OpenCode("5")>>),
                                     DataLine(1, "w", <<OpenCode("5"), CloseCode("5")>>) >>
                           => /\ spans' = << <<5, 1, 1>> >>
                              /\ open_list' = << <<5, 0>> >> )
      ]_vars

\* "5)" has been processed at word 1 with entity 5 opened at 0 and again at
\* 1 and entity 7 opened at 0: (5, 1, 1) is emitted, (5, 0) and (7, 0) stay
C2_Witness ==
    /\ sent = << DataLine(0, "w", <<OpenCode("7"), OpenCode("5")>>),
                 DataLine(1, "w", <<OpenCode("5"), CloseCode("5")>>) >>
    /\ dpc = "for_coref"
    /\ corefs = <<>>
    /\ spans = << <<5, 1, 1>> >>
    /\ open_list = << <<5, 0>>, <<7, 0>> >>

\* C3: process_conll_sentence never returns a Sentence while open_list still
\* holds an entry: a span left open at the end of the segment raises
C3_UnterminatedSpanRaises == dpc = "returned" => open_list = <<>>

\* the codes of a whole segment
SegmentCodes(ls) == CodesOf(ls, 1, Len(ls))

\* C4: a document one of whose segments closes an entity that is not open is
\* not yielded: the generator ends with an exception and yields nothing more;
\* the exception is the RuntimeError of the failed search in open_list when
\* the segments hold token lines only
C4_UnmatchedCloseFails ==
    [][ ( /\ pc = "process"
          /\ \E k \in 1..Len(chunks) : ~ClosesMatched(SegmentCodes(chunks[k])) ) =>
            /\ pc' = "error"
            /\ err' # "none"
            /\ yielded' = yielded
            /\ (\A k \in 1..Len(chunks) : \A i \in 1..Len(chunks[k]) :
                    chunks[k][i].kind = "data") => err' = "RuntimeError"
      ]_vars

\* the second document of a file closes an entity that is not open: the
\* generator has raised after yielding the first document only
C4_Witness ==
    /\ pc = "error"
    /\ err = "RuntimeError"
    /\ Len(yielded) = 1
    /\ \E k \in 1..Len(chunks) : ~ClosesMatched(SegmentCodes(chunks[k]))

\* the line the step has read from the file, EOF at the end of the file
LineRead == IF consumed' = consumed THEN EOF ELSE consumed'[Len(consumed')]

\* C5: when read_conll_document, having read a begin line, reads a chunk that
\* is a BeginDocument or an EndFile, it raises and returns no document:
\* nothing is decoded or yielded
C5_CollectingRejectsBeginAndEOF ==
    [][ ( /\ pc = "read_next"
          /\ conll_type(LineRead) \in {"begin", "eof"} ) =>
            /\ pc' = "error"
            /\ err' = "Exception"
            /\ yielded' = yielded
      ]_vars

\* a begin line directly after a begin line has raised
C5_Witness ==
    /\ pc = "error"
    /\ err = "Exception"
    /\ chunk_types = <<"begin", "begin">>

\* C6: read_conll_document returns a document only after exactly one
\* BeginDocument, one or more Segments and one EndDocument, so with a list
\* of segments that is not empty
C6_DocumentHasSegments ==
    pc = "process" =>
        /\ chunks # <<>>
        /\ Len(chunk_types) >= 3
        /\ chunk_types[1] = "begin"
        /\ chunk_types[Len(chunk_types)] = "end"
        /\ \A i \in 2..(Len(chunk_types) - 1) : chunk_types[i] = "segment"

Occurrences(seq, x) == Cardinality({i \in 1..Len(seq) : seq[i] = x})

\* the references of the sentences of the segments cs
ReferencesOf(cs) ==
    [k \in 1..Len(cs) |-> process_conll_sentence(cs[k]).sentence.references]

\* the clusters are the references grouped by entity: ids names the entity of
\* each cluster, and a triple occurs in a cluster as often as its sentence
\* has the reference of that entity with that start and end
Partitions(clusters, refs, ids) ==
    /\ \A c, d \in 1..Len(clusters) : c # d => ids[c] # ids[d]
    /\ \A k \in 1..Len(refs) : \A j \in 1..Len(refs[k]) :
          \E c \in 1..Len(clusters) : ids[c] = refs[k][j][1]
    /\ \A c \in 1..Len(clusters) :
          /\ clusters[c] # <<>>
          /\ \A j \in 1..Len(clusters[c]) :
                clusters[c][j][1] \in 0..(Len(refs) - 1)
          /\ \A k \in 1..Len(refs) :
                \A t \in { <<refs[k][j][2], refs[k][j][3]>> : j \in 1..Len(refs[k]) }
                     \cup { <<clusters[c][j][2], clusters[c][j][3]>> :
                               j \in 1..Len(clusters[c]) } :
                    Occurrences(clusters[c], <<k - 1, t[1], t[2]>>) =
                        Occurrences(refs[k], <<ids[c], t[1], t[2]>>)

\* C7: in the Document just yielded, mentions partitions the references of
\* the document's sentences by entity id: one cluster per entity, none empty,
\* each reference in the cluster of its entity exactly once, and every
\* sentence index an index of the document's sentences
C7_MentionsPartitionReferences ==
    (pc = "suspended" /\ yielded # <<>>) =>
        LET doc == yielded[Len(yielded)]
            refs == ReferencesOf(chunks)
        IN  /\ Len(doc.tokens) = Len(refs)
            /\ \E ids \in [1..Len(doc.mentions) ->
                             UNION { { refs[k][j][1] : j \in 1..Len(refs[k]) } :
                                        k \in 1..Len(refs) }] :
                  Partitions(doc.mentions, refs, ids)

\* a Document has been yielded whose two clusters hold the same triple, one
\* of them with a triple of another sentence as well
C7_Witness ==
    /\ pc = "suspended"
    /\ yielded # <<>>
    /\ yielded[Len(yielded)].mentions =
          << << <<0, 0, 0>> >>, << <<0, 0, 0>>, <<1, 0, 1>> >> >>

\* every reference lies inside the token list, start first
InRange(sentence) ==
    \A j \in 1..Len(sentence.references) :
        LET ref == sentence.references[j]
        IN  /\ ref[2] <= ref[3]
            /\ 0 <= ref[2]
            /\ ref[3] < Len(sentence.tokens)

\* C8, as claimed: every reference of every Sentence returned satisfies
\* start <= end, 0 <= start and end < number of tokens
C8_ReferencesInRange == dpc = "returned" => InRange(result.sentence)

\* column 3 of every line of the segment is the 0-based index of the line
WellNumbered(ls) == \A i \in 1..Len(ls) : ls[i].kind = "data" /\ ls[i].word = i - 1

\* C8, amended: when the word number of every line of the segment is the
\* 0-based index of the line, every reference of the Sentence returned
\* satisfies start <= end, 0 <= start and end < number of tokens
C8_ReferencesInRangeWhenNumbered ==
    (dpc = "returned" /\ WellNumbered(sent)) => InRange(result.sentence)

\* a Sentence of two lines numbered 0 and 1 has been returned with a
\* reference from 0 to 1
C8_Witness ==
    /\ dpc = "returned"
    /\ WellNumbered(sent)
    /\ Len(sent) = 2
    /\ \E j \in 1..Len(result.sentence.references) :
          /\ result.sentence.references[j][2] = 0
          /\ result.sentence.references[j][3] = 1

ExampleFile ==
    << BeginLine("(test)"),
       DataLine(0, "-LRB-", <<OpenCode("1")>>),
       DataLine(1, "-RRB-", <<CloseCode("1")>>),
       BlankLine,
       EndLine >>

\* C9: once the five lines of the example have been read, the generator
\* yields the Document with sentences [["(", ")"]] and mentions [[(0,0,1)]],
\* and it has yielded nothing else when it stops at the end of the file
C9_ExampleDocument ==
    (consumed = ExampleFile /\ pc \in {"suspended", "done", "error"}) =>
        /\ pc # "error"
        /\ yielded = << Document("(test)",
                                 << << "(", ")" >> >>,
                                 << << <<0, 0, 1>> >> >>) >>

\* the example has been read to the end of the file
C9_Witness == consumed = ExampleFile /\ atEOF /\ pc = "done" /\ Len(yielded) = 1

IsImmediate(c) == \E e \in EntityNames : c = BothCode(e)

OnlyImmediate(ls) ==
    \A i \in 1..Len(ls) :
        /\ ls[i].kind = "data"
        /\ \A j \in 1..Len(ls[i].coref) :
              IsImmediate(ls[i].coref[j]) \/ ls[i].coref[j] = NoCode

\* the spans (N, p, p) of the codes "(N)" among cs, in order
RECURSIVE ImmediateSpans(_)
ImmediateSpans(cs) ==
    IF Len(cs) = 0 THEN <<>>
    ELSE IF IsImmediate(Head(cs).code)
    THEN << <<int(<<Head(cs).code[2]>>), Head(cs).word, Head(cs).word>> >>
            \o ImmediateSpans(Tail(cs))
    ELSE ImmediateSpans(Tail(cs))

\* C10: processing a code "(N)" at word number p appends (N, p, p) to spans
\* and leaves open_list as it is; a segment whose codes are all of that shape
\* returns exactly those spans, one per code, and ends with open_list empty
C10_ImmediateClose ==
    /\ [][ \A e \in EntityNames :
             ( /\ dpc = "for_coref"
               /\ corefs # <<>>
               /\ Head(corefs) = BothCode(e) ) =>
                 /\ spans' = Append(spans, <<int(<<e>>), word_position, word_position>>)
                 /\ open_list' = open_list
                 /\ dpc' = "for_coref"
         ]_vars
    /\ []( (dpc = "returned" /\ OnlyImmediate(sent)) =>
              /\ open_list = <<>>
              /\ result.sentence.references = ImmediateSpans(CodesWithWords(sent)) )

\* a segment of codes "(N)" only has been decoded: "(5)|(7)" at word number
\* 0 and "(5)" at word number 1
C10_Witness ==
    /\ dpc = "returned"
    /\ OnlyImmediate(sent)
    /\ result.sentence.references = << <<5, 0, 0>>, <<7, 0, 0>>, <<5, 1, 1>> >>

\* no line of the segment carries a code: every line is a token line whose
\* coreference column holds no "(N", "N)" or "(N)"
NoCodes(ls) ==
    \A i \in 1..Len(ls) :
        /\ ls[i].kind = "data"
        /\ \A j \in 1..Len(ls[i].coref) : ls[i].coref[j] = NoCode

\* C11: a segment none of whose lines carries a coreference code decodes,
\* without an exception, to a Sentence with no reference and with one token
\* per line, so with a token list that is not empty
C11_NoCodesNoReferences ==
    (dpc \in {"returned", "raised"} /\ NoCodes(sent)) =>
        /\ dpc = "returned"
        /\ result.sentence.references = <<>>
        /\ result.sentence.tokens # <<>>
        /\ Len(result.sentence.tokens) = Len(sent)

\* a segment of two lines without codes has been decoded
C11_Witness ==
    /\ dpc = "returned"
    /\ NoCodes(sent)
    /\ Len(sent) = 2
    /\ result.sentence.tokens = <<"(", "w">>

(***************************************************************************)
(* Sentence(tokens, references) alone: a Sentence is constructed from a    *)
(* token list, and a second Sentence from the tokens of the first.         *)
(***************************************************************************)
NormalizeTokens == {"-LRB-", "-RRB-", "(", ")", "w"}

TokenLists == UNION { [1..n -> NormalizeTokens] : n \in 0..MaxTokens }

NormalizeInit ==
    /\ FileInit
    /\ pc = "idle"
    /\ sent = <<>>
    /\ line = BlankLine
    /\ word_position = 0
    /\ corefs = <<>>
    /\ tokens \in TokenLists
    /\ open_list = <<>>
    /\ spans = <<>>
    /\ result = NoResult
    /\ left_open = {}
    /\ dpc = "construct"

\* Sentence(tokens, spans)
Construct ==
    /\ dpc = "construct"
    /\ result' = [kind |-> "returned", sentence |-> Sentence(tokens, spans),
                  err |-> "none"]
    /\ dpc' = "constructed"
    /\ UNCHANGED <<sent, line, word_position, corefs, tokens, open_list, spans>>
    /\ UNCHANGED <<fileVars, left_open>>

\* Sentence(s.tokens, s.references), s the Sentence constructed before
Reconstruct ==
    /\ dpc = "constructed"
    /\ tokens' = result.sentence.tokens
    /\ result' = [kind |-> "returned",
                  sentence |-> Sentence(result.sentence.tokens,
                                        result.sentence.references),
                  err |-> "none"]
    /\ dpc' = "reconstructed"
    /\ UNCHANGED <<sent, line, word_position, corefs, open_list, spans>>
    /\ UNCHANGED <<fileVars, left_open>>

NormalizeNext ==
    \/ Construct
    \/ Reconstruct

SpecNormalize == NormalizeInit /\ [][NormalizeNext]_vars

\* C12: the tokens of a Sentence are the tokens given, in order and as many,
\* with "-LRB-" replaced by "(" and "-RRB-" by ")" and every other token as
\* it is; normalizing them again gives the same list
C12_NormalizeIdempotent ==
    /\ dpc = "constructed" =>
          /\ Len(result.sentence.tokens) = Len(tokens)
          /\ \A i \in 1..Len(tokens) :
                result.sentence.tokens[i] =
                    IF tokens[i] = "-LRB-" THEN "("
                    ELSE IF tokens[i] = "-RRB-" THEN ")"
                    ELSE tokens[i]
    /\ dpc = "reconstructed" => result.sentence.tokens = tokens

\* tokens that were normalized from bracket escapes have been normalized again
C12_Witness ==
    /\ dpc = "reconstructed"
    /\ tokens = <<"(", "w", ")">>
    /\ result.sentence.tokens = <<"(", "w", ")">>

\* C13: read_conll_document, called where a document may begin, reads one
\* chunk.  An EndFile ends the generator without an exception, and nothing
\* is read or yielded after that; a BeginDocument starts the collection of
\* segments under its doc_id; an EndDocument raises; a Segment is read to its
\* end and then raises
C13_FirstChunk ==
    [][ /\ ( pc = "read_first" /\ conll_type(LineRead) = "eof" ) =>
              /\ pc' = "done"
              /\ err' = "none"
              /\ yielded' = yielded
              /\ chunk_types' = <<"eof">>
        /\ ( pc = "read_first" /\ conll_type(LineRead) = "begin" ) =>
              /\ pc' = "read_next"
              /\ doc_id' = LineRead.doc_id
              /\ chunks' = <<>>
              /\ err' = "none"
              /\ chunk_types' = <<"begin">>
        /\ ( pc = "read_first" /\ conll_type(LineRead) = "end" ) =>
              /\ pc' = "error"
              /\ err' = "Exception"
              /\ yielded' = yielded
              /\ chunk_types' = <<"end">>
        /\ ( pc = "read_first" /\ conll_type(LineRead) = "segment" ) =>
              /\ pc' = "segment_first"
              /\ err' = "none"
        /\ pc = "segment_first" =>
              /\ yielded' = yielded
              /\ IF IsBlank(LineRead)
                 THEN /\ pc' = "error"
                      /\ err' = "Exception"
                      /\ chunk_types' = <<"segment">>
                 ELSE pc' = "segment_first" /\ err' = "none"
        /\ pc = "done" => FALSE
      ]_vars

\* after one document, a segment of two lines has been read where a
\* document may begin, and has raised
C13_Witness ==
    /\ pc = "error"
    /\ err = "Exception"
    /\ chunk_types = <<"segment">>
    /\ Len(lines) = 2
    /\ Len(yielded) = 1

\* the last n lines read from the file
LastLines(n) == SubSeq(consumed, Len(consumed) - n + 1, Len(consumed))

\* C14: a chunk whose first line is neither blank nor a marker is a Segment
\* of that line and of every line read after it, whatever it holds, up to
\* the next blank line or the end of the file: while the segment is read its
\* lines are the last lines of the file read, in order; every read takes
\* the next line of the file and no other; the blank line that ends the
\* segment is read and is no line of it, and the segment goes to the caller
\* as it stands
C14_SegmentLines ==
    /\ []( pc \in {"segment_first", "segment_next"} =>
              /\ lines # <<>>
              /\ Len(lines) <= Len(consumed)
              /\ lines = LastLines(Len(lines))
              /\ conll_type(lines[1]) = "segment"
              /\ \A i \in 1..Len(lines) : ~IsBlank(lines[i]) )
    /\ [][ /\ \/ consumed' = consumed
              \/ Len(consumed') = Len(consumed) + 1
                    /\ SubSeq(consumed', 1, Len(consumed)) = consumed
                    /\ ~atEOF
           /\ ( pc \in {"read_first", "read_next"}
                   /\ conll_type(LineRead) = "segment" ) =>
                 /\ lines' = <<LineRead>>
                 /\ pc' = IF pc = "read_first" THEN "segment_first"
                                               ELSE "segment_next"
           /\ ( pc \in {"segment_first", "segment_next"} /\ ~IsBlank(LineRead) ) =>
                 /\ lines' = Append(lines, LineRead)
                 /\ pc' = pc
           /\ ( pc = "segment_next" /\ IsBlank(LineRead) ) =>
                 /\ chunks' = Append(chunks, lines)
                 /\ pc' = "read_next"
      ]_<<consumed, atEOF, pc, lines, chunks>>

\* a segment that holds a token line and an end line has gone to
\* read_conll_document, the blank line after it read
C14_Witness ==
    /\ pc = "read_next"
    /\ Len(chunks) = 1
    /\ Len(chunks[1]) = 2
    /\ chunks[1][2] = EndLine
    /\ consumed[Len(consumed)] = BlankLine

\* C15: when the k-th Document has been yielded the file has been read up
\* to the k-th end line and no further: the lines read hold k begin lines
\* and k end lines and the last of them is an end line.  The generator then
\* waits: the next step is the caller's next(), which reads nothing, so an
\* exception of the following document leaves the generator after that, and
\* the Documents yielded before stay as they were
C15_PullBased ==
    /\ []( (pc = "suspended" /\ yielded # <<>>) =>
              /\ consumed # <<>>
              /\ consumed[Len(consumed)].kind = "end"
              /\ ~atEOF
              /\ Len(IndicesOf(consumed, "end", 1)) = Len(yielded)
              /\ Len(IndicesOf(consumed, "begin", 1)) = Len(yielded) )
    /\ [][ /\ pc = "suspended" =>
                 /\ pc' = "read_first"
                 /\ consumed' = consumed
                 /\ atEOF' = atEOF
                 /\ yielded' = yielded
                 /\ err' = "none"
           /\ \/ yielded' = yielded
              \/ /\ pc = "process"
                 /\ pc' = "suspended"
                 /\ Len(yielded') = Len(yielded) + 1
                 /\ SubSeq(yielded', 1, Len(yielded)) = yielded
           /\ pc' = "error" => yielded' = yielded
      ]_vars

\* the second document of a file has raised after the first was yielded and
\* the caller had called next() again
C15_Witness ==
    /\ pc = "error"
    /\ Len(yielded) = 1
    /\ Len(IndicesOf(consumed, "begin", 1)) = 2
    /\ yielded[1].doc_id = consumed[1].doc_id

\* the entry or span comes from the codes P of the sentence being decoded
OpenedIn(P, entry) ==
    \E a \in 1..Len(P) : \E n \in EntityNames :
        /\ P[a].code = OpenCode(n)
        /\ int(<<n>>) = entry[1]
        /\ P[a].word = entry[2]

SpannedIn(P, span) ==
    \E a, b \in 1..Len(P) : \E n \in EntityNames :
        /\ int(<<n>>) = span[1]
        /\ P[a].word = span[2]
        /\ P[b].word = span[3]
        /\ \/ a < b /\ P[a].code = OpenCode(n) /\ P[b].code = CloseCode(n)
           \/ a = b /\ P[a].code = BothCode(n)

\* C16: every call of process_conll_sentence starts with an empty open_list,
\* whatever the call before left open; every entry of open_list and both
\* ends of every span come from codes of the sentence being decoded; and a
\* close code of an entity that this sentence has not open raises, also when
\* the sentence before left that entity open
C16_OpenListPerSentence ==
    /\ []( /\ (dpc = "for_line" /\ sent = <<>>) => open_list = <<>>
           /\ \A i \in 1..Len(open_list) : OpenedIn(ProcessedCodes, open_list[i])
           /\ \A j \in 1..Len(spans) : SpannedIn(ProcessedCodes, spans[j]) )
    /\ [][ \A e \in EntityNames :
             ( /\ dpc = "for_coref"
               /\ corefs # <<>>
               /\ Head(corefs) = CloseCode(e)
               /\ Unclosed(ProcessedCodes, e, Len(ProcessedCodes)) = {} ) =>
                 /\ dpc' = "raised"
                 /\ result'.err = "StopIteration"
                 /\ spans' = spans
         ]_vars

\* the sentence before left entity 5 open, and "5)" on the first line of
\* this sentence has raised
C16_Witness ==
    /\ left_open = {5}
    /\ dpc = "raised"
    /\ result.err = "StopIteration"
    /\ Len(sent) = 1
    /\ sent[1].coref = <<CloseCode("5")>>

IsClose(c) == \E e \in EntityNames : c = CloseCode(e)

\* the span the t-th code of P emits: (N, p, p) for "(N)" at word number p,
\* (N, s, p) for "N)" at p when the latest "(N" still open is at s, and no
\* span for any other code
SpanOfCode(P, t) ==
    IF IsImmediate(P[t].code)
    THEN << <<int(<<P[t].code[2]>>), P[t].word, P[t].word>> >>
    ELSE IF IsClose(P[t].code)
    THEN LET e == P[t].code[1]
             U == Unclosed(P, e, t - 1)
         IN  IF U = {} THEN <<>>
             ELSE << <<int(<<e>>), P[Max(U)].word, P[t].word>> >>
    ELSE <<>>

\* the spans of the first t codes of P, in the order of the codes
RECURSIVE EmittedSpans(_, _)
EmittedSpans(P, t) ==
    IF t = 0 THEN <<>> ELSE EmittedSpans(P, t - 1) \o SpanOfCode(P, t)

\* the spans of the codes "N)" among the first t codes of P, in that order
RECURSIVE MatchedSpans(_, _)
MatchedSpans(P, t) ==
    IF t = 0 THEN <<>>
    ELSE MatchedSpans(P, t - 1)
            \o (IF IsClose(P[t].code) THEN SpanOfCode(P, t) ELSE <<>>)

\* C17 as stated: the references of a returned Sentence are the spans of
\* all the codes "(N)", in line order, followed by the spans of the matched
\* codes "N)"
C17_ImmediateSpansFirst ==
    dpc = "returned" =>
        LET P == CodesWithWords(sent)
        IN  result.sentence.references = ImmediateSpans(P) \o MatchedSpans(P, Len(P))

\* C17 as the code has it: spans holds, at every point of the decoding, one
\* span per code "(N)" or matched "N)" processed so far, in the order the
\* codes were processed (line by line, and left to right within a line),
\* the two kinds interleaved; the returned Sentence has exactly these
C17_SpansInCodeOrder ==
    /\ spans = EmittedSpans(ProcessedCodes, Len(ProcessedCodes))
    /\ dpc = "returned" =>
          LET P == CodesWithWords(sent)
          IN  result.sentence.references = EmittedSpans(P, Len(P))

\* "(5|5)" at word number 0 then "(7)" at word number 1: the matched span
\* of entity 5 comes before the immediate span of entity 7
C17_Witness ==
    /\ dpc = "returned"
    /\ sent = << DataLine(0, "w", <<OpenCode("5"), CloseCode("5")>>),
                 DataLine(1, "w", <<BothCode("7")>>) >>
    /\ result.sentence.references = << <<5, 0, 0>>, <<7, 1, 1>> >>

\* the token of a line as a Sentence holds it
TokenOf(l) ==
    IF l.tok = "-LRB-" THEN "(" ELSE IF l.tok = "-RRB-" THEN ")" ELSE l.tok

\* C18: the Document just yielded has one token list per segment read
\* between its begin and end lines, in the order of the segments; the list
\* of a segment has one token per line of the segment, in line order, the
\* j-th being the normalized token column of the j-th line
C18_TokensPerLine ==
    (pc = "suspended" /\ yielded # <<>>) =>
        LET d == yielded[Len(yielded)]
        IN  /\ Len(d.tokens) = Len(chunks)
            /\ \A k \in 1..Len(chunks) :
                  /\ Len(d.tokens[k]) = Len(chunks[k])
                  /\ \A j \in 1..Len(chunks[k]) :
                        d.tokens[k][j] = TokenOf(chunks[k][j])

\* a Document of two segments has been yielded: "-LRB-" and "-RRB-" in the
\* first, "w" in the second
C18_Witness ==
    /\ pc = "suspended"
    /\ Len(yielded) = 1
    /\ Len(chunks) = 2
    /\ yielded[1].tokens = << <<"(", ")">>, <<"w">> >>

Stopped == pc \in {"done", "error"}

\* C19: the iteration over a finite stream eventually stops, exhausted
\* or with an error raised; the generator gets exhausted by reading '' or a
\* blank line where a document may begin, yielding nothing at that step, and
\* once it is exhausted or has raised no step follows: no Document is
\* yielded and no line is read
C19_Terminates ==
    /\ <>Stopped
    /\ [][ /\ ~Stopped
           /\ pc' = "done" =>
                 /\ pc = "read_first"
                 /\ chunk_types' = <<"eof">>
                 /\ yielded' = yielded
                 /\ err' = "none"
         ]_vars

\* two Documents were yielded and the stream's end was then read
C19_Witness ==
    /\ pc = "done"
    /\ atEOF
    /\ Len(yielded) = 2

\* the step reads a blank line, or '' at the end of the stream
ReadsBlankOrEnd ==
    \/ consumed' = Append(consumed, BlankLine) /\ ~atEOF'
    \/ consumed' = consumed /\ atEOF'

EndLinesRead == Cardinality({i \in 1..Len(consumed) : consumed[i] = EndLine})

\* C20: a blank line read as the first line of a chunk has the effect of the
\* end of the stream. Where a begin line is expected it ends the iteration
\* without an error and without a Document, and the lines after it are
\* never read: the iterator is then exhausted with a blank line as the last
\* line read, however many lines the file has after it, having yielded one
\* Document per end line before it. After a begin line, with or without
\* segments read since, it raises the structural error, and no Document is
\* yielded for the begin line
C20_BlankLineIsEndOfStream ==
    /\ [][ /\ (pc = "read_first" /\ ReadsBlankOrEnd) =>
                 /\ pc' = "done"
                 /\ err' = "none"
                 /\ yielded' = yielded
           /\ (pc = "read_next" /\ ReadsBlankOrEnd) =>
                 /\ pc' = "error"
                 /\ err' = "Exception"
                 /\ yielded' = yielded
           /\ pc = "done" => consumed' = consumed /\ yielded' = yielded
         ]_vars
    /\ []( (pc = "done" /\ ~atEOF) =>
              /\ consumed # <<>>
              /\ consumed[Len(consumed)] = BlankLine
              /\ Len(yielded) = EndLinesRead
              /\ err = "none" )

\* a blank line after the end line of the first document has ended the
\* iteration with the stream not at its end
C20_Witness ==
    /\ pc = "done"
    /\ ~atEOF
    /\ Len(consumed) >= 3
    /\ consumed[Len(consumed)] = BlankLine
    /\ consumed[Len(consumed) - 1] = EndLine
    /\ Len(yielded) = 1

====
